---- MODULE Spec2Model ----
(***************************************************************************)
(* Model of the clean-CIDR fetcher (check.py and its script variant        *)
(* scripts/fetch-clean-cidr.py): quota distribution in main(), the         *)
(* reputation backends and score aggregation of FastBlacklistChecker,      *)
(* test_cidr_cleanliness, the collection loop, testing and selection of    *)
(* process_country, generate_test_ip, and the operator classification and  *)
(* selection of get_random_asns_from_bgpview.                              *)
(*                                                                         *)
(* Each component is a state machine over its own variables; a             *)
(* specification (SpecMain, SpecScore, SpecCollect, SpecSelect,            *)
(* SpecSample, SpecClassify) runs one component and leaves the variables   *)
(* of the others at their initial values.                                  *)
(***************************************************************************)
EXTENDS Integers, Sequences, FiniteSets, TLC

VARIABLES
    \* ---- main() ----
    m_pc,               \* position in main()
    argCountries,       \* args.countries, split at ',' (<<>>: option absent or empty)
    argTotal,           \* args.total_cidrs
    countries,          \* list of accepted country codes
    total_cidrs,        \* total requested, as main() uses it
    cidrs_per_country,  \* base quota
    remaining_cidrs,    \* remainder
    m_i,                \* index of the country loop (0-based, as enumerate)
    targets,            \* country_target passed to process_country, per index
    country_results,    \* dict country -> result list
    all_clean_cidrs,    \* concatenation of all non-empty results
    dir_called,         \* indexes for which the ASN directory was queried
    probed,             \* indexes for which a backend probe was issued
    output,             \* the lines written to the CIDR file
    report,             \* the report written as JSON
    \* ---- FastBlacklistChecker.get_spam_score(ip) ----
    variant,            \* "check": check.py, "script": scripts/fetch-clean-cidr.py
    s_pc,               \* position in get_spam_score
    queried,            \* the backends queried so far, in order
    sp_out,             \* what the Spamhaus lookup did
    so_out,             \* what the three SORBS lookups did
    ba_out,             \* what the Barracuda lookup did
    sfs_out,            \* what the StopForumSpam request did
    spamhaus,           \* (spamhaus_clean, spamhaus_score)
    sorbs,              \* (sorbs_clean, sorbs_score)
    barracuda,          \* (barracuda_clean, barracuda_score)
    sfs,                \* (sfs_clean, sfs_score)
    score,              \* returned score, in units of 1/Scale
    is_blacklisted,     \* returned verdict
    result,             \* the dict test_cidr_cleanliness builds from them
    \* ---- process_country(country, target_cidrs): collection loop ----
    c_pc,               \* position in process_country
    target_cidrs,       \* the country's target
    all_cidrs,          \* the pool, a list of CIDR strings
    asn_map,            \* dict CIDR -> ASN
    retry_count,        \* attempts started
    asns,               \* the ASNs selected for the current attempt
    a_k,                \* index of the next ASN to fetch (1-based)
    attempt_cidrs,      \* CIDRs fetched in the current attempt
    attempt_asn_map,    \* dict CIDR -> ASN of the current attempt
    backoff,            \* the last attempt ended in time.sleep(2)
    fed_known,          \* the last merge was fed a CIDR it had seen before
    grew,               \* the last attempt added a CIDR to the pool
    probe,              \* what the backends will answer, per CIDR of the pool
    t_k,                \* index of the next CIDR to test (1-based)
    checker_calls,      \* calls of checker.get_spam_score so far
    tested_results,     \* the result dicts of the tested CIDRs
    clean_cidrs,        \* the list process_country returns
    \* ---- generate_test_ip(cidr) ----
    g_pc,               \* position in generate_test_ip
    g_cidr,             \* the argument: address part and prefix length
    test_ip,            \* the value returned
    \* ---- get_random_asns_from_bgpview(country_code) ----
    r_pc,               \* position in get_random_asns_from_bgpview
    country_code,       \* the argument
    response,           \* what the directory request did
    residential_asns,   \* the eligible operators, with their priority
    raised,             \* an exception reached the except clause
    selected_asn_numbers \* the list returned

mainVars == <<m_pc, argCountries, argTotal, countries, total_cidrs,
              cidrs_per_country, remaining_cidrs, m_i, targets,
              country_results, all_clean_cidrs, dir_called, probed,
              output, report>>

scoreVars == <<variant, s_pc, queried, sp_out, so_out, ba_out, sfs_out,
               spamhaus, sorbs, barracuda, sfs, score, is_blacklisted,
               result>>

collectVars == <<c_pc, target_cidrs, all_cidrs, asn_map, retry_count, asns,
                 a_k, attempt_cidrs, attempt_asn_map, backoff, fed_known,
                 grew, probe, t_k, checker_calls, tested_results, clean_cidrs>>

\* the locals of process_country that the testing phase writes
testVars == <<probe, t_k, checker_calls, tested_results, clean_cidrs>>

sampleVars == <<g_pc, g_cidr, test_ip>>

classifyVars == <<r_pc, country_code, response, residential_asns, raised,
                  selected_asn_numbers>>

vars == <<mainVars, scoreVars, collectVars, sampleVars, classifyVars>>

\* what the steps of one component leave alone
notMain == <<scoreVars, collectVars, sampleVars, classifyVars>>
notScore == <<mainVars, collectVars, sampleVars, classifyVars>>
notCollect == <<mainVars, scoreVars, sampleVars, classifyVars>>
notSample == <<mainVars, scoreVars, collectVars, classifyVars>>
notClassify == <<mainVars, scoreVars, collectVars, sampleVars>>

----------------------------------------------------------------------------
(* Bounds of the model *)

MaxCountries == 3      \* longest country list given on the command line
MaxTotal == 10         \* largest --total-cidrs value
MaxFound == 2          \* longest result list process_country hands back
MaxTarget == 6         \* largest target handed to process_country
MaxPool == 4           \* largest pool of the selection model
AddressBits == 9       \* width of an address (IPv4: 32)
MaxRecords == 3        \* longest mixed list of records the directory returns

----------------------------------------------------------------------------
(* Helpers *)

Max(a, b) == IF a >= b THEN a ELSE b
Min(a, b) == IF a <= b THEN a ELSE b

RECURSIVE SumSeq(_)
SumSeq(s) == IF s = <<>> THEN 0 ELSE Head(s) + SumSeq(Tail(s))

SeqsUpTo(S, n) == UNION {[1..k -> S] : k \in 0..n}

----------------------------------------------------------------------------
(* FastBlacklistChecker: the backends *)

\* Scores are kept exact as integers in units of 1/Scale: every average the
\* code forms divides a sum of integers by 1, 2, 3 or 4.
Scale == 3 * 4

\* A (clean, score) pair; clean is "True", "False" or "None" as in the code.
Pair(c, n) == [clean |-> c, score |-> n]

\* Outcomes of a DNS lookup (socket.gethostbyname): an address, the
\* socket.gaierror the code reads as "no record", or any other exception.
Resolved(a) == [kind |-> "resolved", addr |-> a]
GaiError == [kind |-> "gaierror", addr |-> <<>>]
OtherError == [kind |-> "error", addr |-> <<>>]
NoLookup == [kind |-> "none", addr |-> <<>>]

\* code & bit, for bit a power of two
BitAnd(code, bit) == IF (code \div bit) % 2 = 1 THEN bit ELSE 0

\* check.py check_spamhaus_zen
CheckSpamhausZen(out) ==
    IF out.kind = "resolved" THEN
        IF SubSeq(out.addr, 1, 3) = <<127, 0, 0>> THEN
            LET code == out.addr[4]
            IN  IF BitAnd(code, 2) # 0 THEN Pair("False", 95)
                ELSE IF BitAnd(code, 4) # 0 THEN Pair("False", 90)
                ELSE IF BitAnd(code, 8) # 0 THEN Pair("False", 85)
                ELSE IF BitAnd(code, 16) # 0 THEN Pair("False", 100)
                ELSE Pair("False", 80)
        ELSE Pair("False", 90)
    ELSE IF out.kind = "gaierror" THEN Pair("True", 0)
    ELSE Pair("None", 50)

\* scripts/fetch-clean-cidr.py check_spamhaus_zen
ScriptCheckSpamhausZen(out) ==
    IF out.kind = "resolved" THEN Pair("False", 100)
    ELSE IF out.kind = "gaierror" THEN Pair("True", 0)
    ELSE Pair("None", 50)

\* check_sorbs: the three lists in order; the first that resolves decides,
\* a list that raises (gaierror or anything else) is passed over.
RECURSIVE CheckSorbs(_)
CheckSorbs(outs) ==
    IF outs = <<>> THEN Pair("True", 0)
    ELSE IF Head(outs).kind = "resolved" THEN Pair("False", 85)
    ELSE CheckSorbs(Tail(outs))

\* (mutation of CheckBarracuda: a listing carries a confidence of 40)
CheckBarracuda_LowConfidence(out) ==
    IF out.kind = "resolved" THEN Pair("False", 40)
    ELSE IF out.kind = "gaierror" THEN Pair("True", 0)
    ELSE Pair("None", 25)

\* check_barracuda
CheckBarracuda(out) ==
    IF out.kind = "resolved" THEN Pair("False", 80)
    ELSE IF out.kind = "gaierror" THEN Pair("True", 0)
    ELSE Pair("None", 25)

\* Outcomes of the StopForumSpam request: an exception (transport, or a body
\* that is not the expected JSON), or a response with a status and the 'ip'
\* object's fields ('appears' defaults to 0, 'confidence' to 50).
SfsException == [kind |-> "exception", status |-> 0, appears |-> 0,
                 has_conf |-> FALSE, conf |-> 0]
NoRequest == [kind |-> "none", status |-> 0, appears |-> 0,
              has_conf |-> FALSE, conf |-> 0]
SfsResponse(st, ap, hc, c) == [kind |-> "response", status |-> st,
                               appears |-> ap, has_conf |-> hc, conf |-> c]

\* check_stopforumspam (the same in both files)
CheckStopforumspam(out) ==
    IF out.kind = "response" /\ out.status = 200 THEN
        IF out.appears = 0 THEN Pair("True", 0)
        ELSE Pair("False", Min(IF out.has_conf THEN out.conf ELSE 50, 100))
    ELSE Pair("None", 25)

\* The lookups and responses the model draws from.
SpamhausCodes == 0..31
DnsOutcomes == {Resolved(<<127, 0, 0, 2>>), GaiError, OtherError}
SpamhausOutcomes ==
    {Resolved(<<127, 0, 0, c>>) : c \in SpamhausCodes}
        \cup {Resolved(<<127, 255, 255, 254>>), GaiError, OtherError}
SorbsOutcomes == [1..3 -> DnsOutcomes]
SfsConfidences == {5, 15, 16, 40, 45, 60, 150}
SfsOutcomes ==
    {SfsException, SfsResponse(500, 0, FALSE, 0), SfsResponse(200, 0, FALSE, 0),
     SfsResponse(200, 1, FALSE, 0)}
        \cup {SfsResponse(200, 1, TRUE, c) : c \in SfsConfidences}

----------------------------------------------------------------------------
(* FastBlacklistChecker.get_spam_score: aggregation *)

RECURSIVE MaxSeq(_)
MaxSeq(s) == IF Len(s) = 1 THEN s[1] ELSE Max(Head(s), MaxSeq(Tail(s)))

\* (mutation of ValidScores: the fallback score of a failed backend counts)
RECURSIVE ValidScores_All(_)
ValidScores_All(pairs) ==
    IF pairs = <<>> THEN <<>>
    ELSE <<Head(pairs).score>> \o ValidScores_All(Tail(pairs))

\* "if x_clean is not None: scores.append(x_score)", in the order given
RECURSIVE ValidScores(_)
ValidScores(pairs) ==
    IF pairs = <<>> THEN <<>>
    ELSE (IF Head(pairs).clean # "None" THEN <<Head(pairs).score>> ELSE <<>>)
             \o ValidScores(Tail(pairs))

BlacklistThreshold == 15

\* (mutation of IsRisky: the threshold itself counts as risky)
IsRisky_Inclusive(avg_score) == avg_score >= Scale * BlacklistThreshold

\* is_blacklisted = avg_score > 15
IsRisky(avg_score) == avg_score > Scale * BlacklistThreshold

\* (mutation of GetSpamScore: a Spamhaus listing is averaged like the rest)
GetSpamScore_NoPrimaryRule(sp, so, ba, sf) ==
    LET scores == ValidScores(<<sp, so, ba, sf>>)
    IN  IF scores = <<>> THEN [score |-> Scale * 50, blacklisted |-> FALSE]
        ELSE
            LET avg_score ==
                    IF Len(scores) >= 3
                    THEN (Scale * SumSeq(scores)) \div Len(scores)
                    ELSE Scale * MaxSeq(scores)
            IN  [score |-> avg_score, blacklisted |-> IsRisky(avg_score)]

\* check.py get_spam_score, from the four backend results
GetSpamScore(sp, so, ba, sf) ==
    IF sp.clean = "False" THEN [score |-> Scale * sp.score, blacklisted |-> TRUE]
    ELSE
        LET scores == ValidScores(<<sp, so, ba, sf>>)
        IN  IF scores = <<>> THEN [score |-> Scale * 50, blacklisted |-> FALSE]
            ELSE
                LET avg_score ==
                        IF Len(scores) >= 3
                        THEN (Scale * SumSeq(scores)) \div Len(scores)
                        ELSE Scale * MaxSeq(scores)
                IN  [score |-> avg_score, blacklisted |-> IsRisky(avg_score)]

ScriptThreshold == 50

\* scripts/fetch-clean-cidr.py get_spam_score, after the StopForumSpam call
ScriptGetSpamScore(sp, sf) ==
    LET scores == ValidScores(<<sp, sf>>)
    IN  IF scores = <<>> THEN [score |-> Scale * 50, blacklisted |-> FALSE]
        ELSE
            LET avg_score == (Scale * SumSeq(scores)) \div Len(scores)
            IN  [score |-> avg_score,
                 blacklisted |-> avg_score > Scale * ScriptThreshold]

----------------------------------------------------------------------------
(* test_cidr_cleanliness *)

\* 'clean': score <= 10
SaveThreshold == 10

\* (mutation of TestCidrCleanliness: the threshold of the script variant)
TestCidrCleanliness_Lenient(cidr, r) ==
    [cidr |-> cidr,
     score |-> r.score,
     blacklisted |-> r.blacklisted,
     clean |-> r.score < Scale * 20]

\* test_cidr_cleanliness, after generate_test_ip has given an address (it
\* does for every CIDR of the pool: fetch_prefixes_for_asn keeps only
\* prefixes that parse as /16 to /24 networks) and get_spam_score has
\* returned r
TestCidrCleanliness(cidr, r) ==
    [cidr |-> cidr,
     score |-> r.score,
     blacklisted |-> r.blacklisted,
     clean |-> r.score <= Scale * SaveThreshold]

\* scripts/fetch-clean-cidr.py test_cidr_cleanliness: 'clean': score < 20
ScriptSaveThreshold == 20

ScriptTestCidrCleanliness(cidr, r) ==
    [cidr |-> cidr,
     score |-> r.score,
     blacklisted |-> r.blacklisted,
     clean |-> r.score < Scale * ScriptSaveThreshold]

----------------------------------------------------------------------------
(* get_spam_score: the steps *)

NoPair == Pair("unset", 0)

\* no result dict yet
NoResult == [cidr |-> 0, score |-> 0, blacklisted |-> FALSE, clean |-> FALSE]

ScoreIdle ==
    /\ variant = "check"
    /\ s_pc = "idle"
    /\ queried = <<>>
    /\ sp_out = NoLookup
    /\ so_out = <<>>
    /\ ba_out = NoLookup
    /\ sfs_out = NoRequest
    /\ spamhaus = NoPair
    /\ sorbs = NoPair
    /\ barracuda = NoPair
    /\ sfs = NoPair
    /\ score = 0
    /\ is_blacklisted = FALSE
    /\ result = NoResult

InitScore ==
    /\ variant \in {"check", "script"}
    /\ s_pc = "spamhaus"
    /\ queried = <<>>
    /\ sp_out = NoLookup
    /\ so_out = <<>>
    /\ ba_out = NoLookup
    /\ sfs_out = NoRequest
    /\ spamhaus = NoPair
    /\ sorbs = NoPair
    /\ barracuda = NoPair
    /\ sfs = NoPair
    /\ score = 0
    /\ is_blacklisted = FALSE
    /\ result = NoResult

\* spamhaus_clean, spamhaus_score = self.check_spamhaus_zen(ip)
QuerySpamhaus ==
    /\ variant = "check"
    /\ s_pc = "spamhaus"
    /\ \E out \in SpamhausOutcomes :
         /\ sp_out' = out
         /\ spamhaus' = CheckSpamhausZen(out)
    /\ queried' = Append(queried, "spamhaus")
    /\ s_pc' = "sorbs"
    /\ UNCHANGED <<variant, so_out, ba_out, sfs_out, sorbs, barracuda, sfs,
                   score, is_blacklisted>>
    /\ UNCHANGED result
    /\ UNCHANGED notScore

\* sorbs_clean, sorbs_score = self.check_sorbs(ip)
QuerySorbs ==
    /\ variant = "check"
    /\ s_pc = "sorbs"
    /\ \E outs \in SorbsOutcomes :
         /\ so_out' = outs
         /\ sorbs' = CheckSorbs(outs)
    /\ queried' = Append(queried, "sorbs")
    /\ s_pc' = "barracuda"
    /\ UNCHANGED <<variant, sp_out, ba_out, sfs_out, spamhaus, barracuda, sfs,
                   score, is_blacklisted>>
    /\ UNCHANGED result
    /\ UNCHANGED notScore

\* barracuda_clean, barracuda_score = self.check_barracuda(ip)
QueryBarracuda ==
    /\ variant = "check"
    /\ s_pc = "barracuda"
    /\ \E out \in DnsOutcomes :
         /\ ba_out' = out
         /\ barracuda' = CheckBarracuda(out)
    /\ queried' = Append(queried, "barracuda")
    /\ s_pc' = "sfs"
    /\ UNCHANGED <<variant, sp_out, so_out, sfs_out, spamhaus, sorbs, sfs,
                   score, is_blacklisted>>
    /\ UNCHANGED result
    /\ UNCHANGED notScore

\* sfs_clean, sfs_score = self.check_stopforumspam(ip), and the rest of
\* get_spam_score up to its return
QuerySfs ==
    /\ variant = "check"
    /\ s_pc = "sfs"
    /\ \E out \in SfsOutcomes :
         /\ sfs_out' = out
         /\ sfs' = CheckStopforumspam(out)
    /\ queried' = Append(queried, "sfs")
    /\ LET r == GetSpamScore(spamhaus, sorbs, barracuda, sfs')
       IN  /\ score' = r.score
           /\ is_blacklisted' = r.blacklisted
    /\ s_pc' = "done"
    /\ UNCHANGED <<variant, sp_out, so_out, ba_out, spamhaus, sorbs, barracuda>>
    /\ UNCHANGED result
    /\ UNCHANGED notScore

\* the script: check_spamhaus_zen, and "return 100, True" when it is listed
ScriptQuerySpamhaus ==
    /\ variant = "script"
    /\ s_pc = "spamhaus"
    /\ \E out \in DnsOutcomes \cup {Resolved(<<127, 0, 0, 4>>)} :
         /\ sp_out' = out
         /\ spamhaus' = ScriptCheckSpamhausZen(out)
    /\ queried' = Append(queried, "spamhaus")
    /\ IF spamhaus'.clean = "False"
       THEN /\ score' = Scale * 100
            /\ is_blacklisted' = TRUE
            /\ s_pc' = "done"
       ELSE /\ UNCHANGED <<score, is_blacklisted>>
            /\ s_pc' = "sfs"
    /\ UNCHANGED <<variant, so_out, ba_out, sfs_out, sorbs, barracuda, sfs>>
    /\ UNCHANGED result
    /\ UNCHANGED notScore

\* the script: check_stopforumspam and the rest of get_spam_score
ScriptQuerySfs ==
    /\ variant = "script"
    /\ s_pc = "sfs"
    /\ \E out \in SfsOutcomes :
         /\ sfs_out' = out
         /\ sfs' = CheckStopforumspam(out)
    /\ queried' = Append(queried, "sfs")
    /\ LET r == ScriptGetSpamScore(spamhaus, sfs')
       IN  /\ score' = r.score
           /\ is_blacklisted' = r.blacklisted
    /\ s_pc' = "done"
    /\ UNCHANGED <<variant, sp_out, so_out, ba_out, spamhaus, sorbs, barracuda>>
    /\ UNCHANGED result
    /\ UNCHANGED notScore

\* test_cidr_cleanliness, after get_spam_score has returned: the result dict
\* for the CIDR under test (CIDR 1)
BuildResult ==
    /\ s_pc = "done"
    /\ result' = IF variant = "check"
                 THEN TestCidrCleanliness(1, [score |-> score,
                                              blacklisted |-> is_blacklisted])
                 ELSE ScriptTestCidrCleanliness(1, [score |-> score,
                                                    blacklisted |-> is_blacklisted])
    /\ s_pc' = "result"
    /\ UNCHANGED <<variant, queried, sp_out, so_out, ba_out, sfs_out, spamhaus,
                   sorbs, barracuda, sfs, score, is_blacklisted>>
    /\ UNCHANGED notScore

NextScore ==
    \/ QuerySpamhaus
    \/ QuerySorbs
    \/ QueryBarracuda
    \/ QuerySfs
    \/ ScriptQuerySpamhaus
    \/ ScriptQuerySfs
    \/ BuildResult

----------------------------------------------------------------------------
(* process_country: what the directory hands back *)

Range(f) == {f[x] : x \in DOMAIN f}

\* the operators the directory knows (ASNs)
Asns == {1, 2}

\* another operator than a
Other(a) == CHOOSE b \in Asns : b # a

\* fetch_prefixes_for_asn returns at most 5 prefixes
MaxPrefixes == 5

\* The prefixes operator a has to itself (CIDR strings, numbered).
Own(a) == [k \in 1..MaxPrefixes |-> MaxPrefixes * (a - 1) + k]

\* What fetch_prefixes_for_asn(a) can return: nothing (an error, or no
\* prefix of the wanted size), the operator's own prefixes, or a short list
\* that names one prefix twice and one that the other operator announces too.
PrefixReturns(a) ==
    {<<>>, Own(a), <<Own(a)[1], Own(a)[1], Own(Other(a))[1]>>}

\* What get_random_asns_from_bgpview can return: up to 3 distinct ASNs.
AsnSelections ==
    {q \in SeqsUpTo(Asns, 3) : \A j, k \in 1..Len(q) : j # k => q[j] # q[k]}

----------------------------------------------------------------------------
(* process_country: the collection loop *)

MaxRetries == 8

\* min_cidrs_needed = max(target_cidrs * 2, 10)
MinCidrsNeeded == Max(target_cidrs * 2, 10)

\* dict.update: the entries of m2 replace those of m1
DictUpdate(m1, m2) ==
    [c \in DOMAIN m1 \cup DOMAIN m2 |-> IF c \in DOMAIN m2 THEN m2[c] ELSE m1[c]]

\* (mutation of RemoveDuplicates: a CIDR is kept the last time it is seen)
RECURSIVE RemoveDuplicates_KeepLast(_)
RemoveDuplicates_KeepLast(cidrs) ==
    IF cidrs = <<>> THEN <<>>
    ELSE LET rest == RemoveDuplicates_KeepLast(Tail(cidrs))
         IN  IF Head(cidrs) \in Range(Tail(cidrs)) THEN rest
             ELSE <<Head(cidrs)>> \o rest

\* "Remove duplicates while preserving order": the loop over all_cidrs that
\* keeps a CIDR the first time it is seen
RECURSIVE RemoveDuplicates(_)
RemoveDuplicates(cidrs) ==
    IF cidrs = <<>> THEN <<>>
    ELSE LET front == RemoveDuplicates(SubSeq(cidrs, 1, Len(cidrs) - 1))
             last == cidrs[Len(cidrs)]
         IN  IF last \in Range(front) THEN front ELSE Append(front, last)

\* the for-loop body "attempt_cidrs.append(prefix); attempt_asn_map[prefix] = asn"
RECURSIVE RecordPrefixes(_, _, _)
RecordPrefixes(m, prefixes, asn) ==
    IF prefixes = <<>> THEN m
    ELSE RecordPrefixes(DictUpdate(m, [c \in {Head(prefixes)} |-> asn]),
                        Tail(prefixes), asn)

----------------------------------------------------------------------------
(* process_country: testing the pool and selecting the result *)

\* dict.get(key, default)
DictGet(m, key, default) == IF key \in DOMAIN m THEN m[key] ELSE default

\* dict[key] = value
DictSet(m, key, value) == DictUpdate(m, [k \in {key} |-> value])

\* the default of asn_map.get(cidr, 'Unknown'): no ASN
Unknown == 0

\* What the four backends answer for a test address, in the cases the model
\* draws from: nothing listed; StopForumSpam confidence 40 or 45 alone;
\* Barracuda alone; Spamhaus.
CleanReport ==
    <<CheckSpamhausZen(GaiError), CheckSorbs(<<GaiError, GaiError, GaiError>>),
      CheckBarracuda(GaiError), CheckStopforumspam(SfsResponse(200, 0, FALSE, 0))>>

SampleReports ==
    <<CleanReport,
      [CleanReport EXCEPT ![4] = CheckStopforumspam(SfsResponse(200, 1, TRUE, 40))],
      [CleanReport EXCEPT ![4] = CheckStopforumspam(SfsResponse(200, 1, TRUE, 45))],
      [CleanReport EXCEPT ![3] = CheckBarracuda(Resolved(<<127, 0, 0, 2>>))],
      [CleanReport EXCEPT ![1] = CheckSpamhausZen(Resolved(<<127, 0, 0, 2>>))]>>

\* what get_spam_score returns for them
ProbeSeq ==
    [i \in DOMAIN SampleReports |->
        GetSpamScore(SampleReports[i][1], SampleReports[i][2],
                     SampleReports[i][3], SampleReports[i][4])]

ProbeOutcomes == Range(ProbeSeq)

\* The answers the collection model draws for a pool: the same answer for
\* every CIDR, or the answers of ProbeSeq in turn.
ProbeTables(pool) ==
    {[c \in Range(pool) |-> o] : o \in {ProbeSeq[1], ProbeSeq[Len(ProbeSeq)]}}
        \cup {[c \in Range(pool) |-> ProbeSeq[(c % Len(ProbeSeq)) + 1]]}

\* (mutation of SortByScore: the results stay in the order of the pool)
SortByScore_Unsorted(results) == results

\* list.sort(key=lambda x: x['score']): stable, ascending
RECURSIVE InsertByScore(_, _)
InsertByScore(sorted, r) ==
    IF sorted = <<>> THEN <<r>>
    ELSE IF sorted[Len(sorted)].score <= r.score THEN Append(sorted, r)
    ELSE Append(InsertByScore(SubSeq(sorted, 1, Len(sorted) - 1), r),
                sorted[Len(sorted)])

RECURSIVE SortByScore(_)
SortByScore(results) ==
    IF results = <<>> THEN <<>>
    ELSE InsertByScore(SortByScore(SubSeq(results, 1, Len(results) - 1)),
                       results[Len(results)])

\* the slice list[:n], for n >= 0
Take(list, n) == SubSeq(list, 1, Min(n, Len(list)))

IsClean(r) == r.clean
IsNotClean(r) == ~r.clean

\* (mutation of SelectCleanest: the non-clean results are not cut to what
\* is missing)
SelectCleanest_AllNonClean(sorted_results, target) ==
    LET clean == Take(SelectSeq(sorted_results, IsClean), target)
    IN  IF Len(clean) < target
        THEN clean \o SelectSeq(sorted_results, IsNotClean)
        ELSE clean

\* lines 736-750: the clean results up to the target, then, when these are
\* fewer than the target, the first non-clean results up to what is missing
SelectCleanest(sorted_results, target) ==
    LET clean == Take(SelectSeq(sorted_results, IsClean), target)
    IN  IF Len(clean) < target
        THEN clean \o Take(SelectSeq(sorted_results, IsNotClean),
                           target - Len(clean))
        ELSE clean

CollectIdle ==
    /\ c_pc = "idle"
    /\ target_cidrs = 0
    /\ all_cidrs = <<>>
    /\ asn_map = <<>>
    /\ retry_count = 0
    /\ asns = <<>>
    /\ a_k = 0
    /\ attempt_cidrs = <<>>
    /\ attempt_asn_map = <<>>
    /\ backoff = FALSE
    /\ fed_known = FALSE
    /\ grew = FALSE
    /\ probe = <<>>
    /\ t_k = 0
    /\ checker_calls = 0
    /\ tested_results = <<>>
    /\ clean_cidrs = <<>>

InitCollect ==
    /\ c_pc = "loop"
    /\ target_cidrs \in {1, MaxTarget}
    /\ all_cidrs = <<>>
    /\ asn_map = <<>>
    /\ retry_count = 0
    /\ asns = <<>>
    /\ a_k = 0
    /\ attempt_cidrs = <<>>
    /\ attempt_asn_map = <<>>
    /\ backoff = FALSE
    /\ fed_known = FALSE
    /\ grew = FALSE
    /\ probe = <<>>
    /\ t_k = 0
    /\ checker_calls = 0
    /\ tested_results = <<>>
    /\ clean_cidrs = <<>>

\* (mutation of LoopCondition: the ceiling is tested with <=)
LoopCondition_OneMore ==
    Len(all_cidrs) < MinCidrsNeeded /\ retry_count <= MaxRetries

\* while len(all_cidrs) < min_cidrs_needed and retry_count < max_retries
LoopCondition ==
    Len(all_cidrs) < MinCidrsNeeded /\ retry_count < MaxRetries

\* The head of an attempt: count it, ask for ASNs; with none, "continue".
StartAttempt ==
    /\ c_pc = "loop"
    /\ LoopCondition
    /\ retry_count' = retry_count + 1
    /\ \E selected \in AsnSelections :
         /\ asns' = selected
         /\ c_pc' = IF selected = <<>> THEN "loop" ELSE "fetch"
         /\ a_k' = IF selected = <<>> THEN 0 ELSE 1
    /\ attempt_cidrs' = <<>>
    /\ attempt_asn_map' = <<>>
    /\ backoff' = FALSE
    /\ fed_known' = FALSE
    /\ grew' = FALSE
    /\ UNCHANGED <<target_cidrs, all_cidrs, asn_map>>
    /\ UNCHANGED testVars
    /\ UNCHANGED notCollect

\* One iteration of "for asn in asns": fetch, record, time.sleep(1).
FetchPrefixes ==
    /\ c_pc = "fetch"
    /\ a_k <= Len(asns)
    /\ \E prefixes \in PrefixReturns(asns[a_k]) :
         /\ attempt_cidrs' = attempt_cidrs \o prefixes
         /\ attempt_asn_map' = RecordPrefixes(attempt_asn_map, prefixes, asns[a_k])
    /\ a_k' = a_k + 1
    /\ UNCHANGED <<c_pc, target_cidrs, all_cidrs, asn_map, retry_count, asns,
                   backoff, fed_known, grew>>
    /\ UNCHANGED testVars
    /\ UNCHANGED notCollect

\* The tail of an attempt: with CIDRs fetched, extend the pool, update the
\* map, remove duplicates, and break when the pool is large enough; with
\* none, time.sleep(2).  The attempt's locals are dead from here on (the
\* next attempt assigns them before reading them) and are cleared.
EndAttempt ==
    /\ c_pc = "fetch"
    /\ a_k > Len(asns)
    /\ IF attempt_cidrs # <<>>
       THEN LET unique_cidrs == RemoveDuplicates(all_cidrs \o attempt_cidrs)
                updated == DictUpdate(asn_map, attempt_asn_map)
            IN  /\ all_cidrs' = unique_cidrs
                /\ asn_map' = [c \in Range(unique_cidrs) |-> updated[c]]
                /\ fed_known' =
                       (Len(all_cidrs) + Len(attempt_cidrs) > Len(unique_cidrs))
                /\ grew' = (Len(unique_cidrs) > Len(all_cidrs))
                /\ UNCHANGED backoff
                /\ IF Len(unique_cidrs) >= MinCidrsNeeded
                   THEN /\ c_pc' = "test"
                        /\ t_k' = 1
                        /\ probe' \in ProbeTables(unique_cidrs)
                   ELSE /\ c_pc' = "loop"
                        /\ UNCHANGED <<t_k, probe>>
       ELSE /\ backoff' = TRUE
            /\ c_pc' = "loop"
            /\ UNCHANGED <<all_cidrs, asn_map, fed_known, grew, t_k, probe>>
    /\ asns' = <<>>
    /\ a_k' = 0
    /\ attempt_cidrs' = <<>>
    /\ attempt_asn_map' = <<>>
    /\ UNCHANGED <<target_cidrs, retry_count, checker_calls, tested_results,
                   clean_cidrs>>
    /\ UNCHANGED notCollect

\* (mutation of ExitLoop: no early return, an empty pool goes on to the
\* testing phase like any other)
ExitLoop_NoEarlyReturn ==
    /\ c_pc = "loop"
    /\ ~LoopCondition
    /\ c_pc' = "test"
    /\ t_k' = 1
    /\ probe' \in ProbeTables(all_cidrs)
    /\ UNCHANGED <<target_cidrs, all_cidrs, asn_map, retry_count, asns, a_k,
                   attempt_cidrs, attempt_asn_map, backoff, fed_known, grew,
                   checker_calls, tested_results, clean_cidrs>>
    /\ UNCHANGED notCollect

\* The loop condition fails: "if not all_cidrs: return []", else go on to
\* test the pool.
ExitLoop ==
    /\ c_pc = "loop"
    /\ ~LoopCondition
    /\ IF all_cidrs = <<>>
       THEN /\ c_pc' = "returned"
            /\ clean_cidrs' = <<>>
            /\ UNCHANGED <<t_k, probe>>
       ELSE /\ c_pc' = "test"
            /\ t_k' = 1
            /\ probe' \in ProbeTables(all_cidrs)
            /\ UNCHANGED clean_cidrs
    /\ UNCHANGED <<target_cidrs, all_cidrs, asn_map, retry_count, asns, a_k,
                   attempt_cidrs, attempt_asn_map, backoff, fed_known, grew,
                   checker_calls, tested_results>>
    /\ UNCHANGED notCollect

\* One iteration of "for i, cidr in enumerate(all_cidrs)": test the CIDR,
\* add its ASN and keep the result.
TestCidr ==
    /\ c_pc = "test"
    /\ t_k <= Len(all_cidrs)
    /\ LET cidr == all_cidrs[t_k]
           tested == TestCidrCleanliness(cidr, probe[cidr])
       IN  tested_results' =
               Append(tested_results,
                      DictSet(tested, "asn", DictGet(asn_map, cidr, Unknown)))
    /\ checker_calls' = checker_calls + 1
    /\ t_k' = t_k + 1
    /\ UNCHANGED <<c_pc, target_cidrs, all_cidrs, asn_map, retry_count, asns,
                   a_k, attempt_cidrs, attempt_asn_map, backoff, fed_known,
                   grew, probe, clean_cidrs>>
    /\ UNCHANGED notCollect

\* After the loop: sort by score, take the clean ones up to the target,
\* fill up with the non-clean ones, return.
SelectCidrs ==
    /\ c_pc = "test"
    /\ t_k > Len(all_cidrs)
    /\ tested_results' = SortByScore(tested_results)
    /\ clean_cidrs' = SelectCleanest(tested_results', target_cidrs)
    /\ c_pc' = "returned"
    /\ UNCHANGED <<target_cidrs, all_cidrs, asn_map, retry_count, asns, a_k,
                   attempt_cidrs, attempt_asn_map, backoff, fed_known, grew,
                   probe, t_k, checker_calls>>
    /\ UNCHANGED notCollect

\* The testing phase on its own: process_country after a collection that
\* used all 8 attempts and left a pool of 1 to MaxPool CIDRs (the CIDRs are
\* numbered in pool order), with every table of backend answers.
InitSelect ==
    /\ c_pc = "test"
    /\ target_cidrs \in 1..MaxTarget
    /\ \E n \in 1..MaxPool :
         /\ all_cidrs = [k \in 1..n |-> k]
         /\ asn_map = [c \in 1..n |-> 1]
         /\ probe \in [1..n -> ProbeOutcomes]
    /\ retry_count = MaxRetries
    /\ asns = <<>>
    /\ a_k = 0
    /\ attempt_cidrs = <<>>
    /\ attempt_asn_map = <<>>
    /\ backoff = FALSE
    /\ fed_known = FALSE
    /\ grew = FALSE
    /\ t_k = 1
    /\ checker_calls = 0
    /\ tested_results = <<>>
    /\ clean_cidrs = <<>>

NextSelect ==
    \/ TestCidr
    \/ SelectCidrs

NextCollect ==
    \/ StartAttempt
    \/ FetchPrefixes
    \/ EndAttempt
    \/ ExitLoop
    \/ TestCidr
    \/ SelectCidrs

----------------------------------------------------------------------------
(* generate_test_ip *)

\* Addresses are AddressBits wide; a CIDR argument is an address part and a
\* prefix length, both as written (possibly out of range).
MaxAddress == 2 ^ AddressBits - 1

Cidr(a, p) == [addr |-> a, plen |-> p]

\* the value None
None == -1

\* ipaddress.IPv4Network(cidr, strict=False) accepts the argument (a text
\* without '/' is read with the full prefix length)
Parseable(cidr) ==
    cidr.addr \in 0..MaxAddress /\ cidr.plen \in 0..AddressBits

NumAddresses(cidr) == 2 ^ (AddressBits - cidr.plen)

\* strict=False: the host bits are cleared
NetworkAddress(cidr) == cidr.addr - (cidr.addr % NumAddresses(cidr))

\* (mutation of Hosts: no special case for the two longest prefixes)
Hosts_NoSpecialCase(cidr) ==
    [i \in 1..(NumAddresses(cidr) - 2) |-> NetworkAddress(cidr) + i]

\* list(network.hosts()): the single address of a full-length prefix, both
\* addresses of the next shorter one, otherwise all addresses but the
\* network and the broadcast address
Hosts(cidr) ==
    IF cidr.plen = AddressBits THEN <<NetworkAddress(cidr)>>
    ELSE IF cidr.plen = AddressBits - 1
         THEN <<NetworkAddress(cidr), NetworkAddress(cidr) + 1>>
    ELSE [i \in 1..(NumAddresses(cidr) - 2) |-> NetworkAddress(cidr) + i]

\* list[i] with a 0-based index: a negative index counts from the end, an
\* index out of range raises IndexError, which the bare except turns into
\* None
ListItem(list, i) ==
    IF 0 <= i /\ i < Len(list) THEN list[i + 1]
    ELSE IF i < 0 /\ -i <= Len(list) THEN list[Len(list) + i + 1]
    ELSE None

\* address + 1: raises AddressValueError past the last address
AddOne(a) == IF a + 1 > MaxAddress THEN None ELSE a + 1

OffsetCap == 100

\* (mutation of GenerateTestIp: the offset is bounded by the cap alone)
GenerateTestIp_WideOffset(cidr) ==
    IF ~Parseable(cidr) THEN {None}
    ELSE
        LET all_hosts == Hosts(cidr)
        IN  IF Len(all_hosts) > 10
            THEN LET middle == Len(all_hosts) \div 2
                     m == OffsetCap
                 IN  {ListItem(all_hosts, middle + offset) : offset \in (-m)..m}
            ELSE IF all_hosts # <<>> THEN Range(all_hosts)
            ELSE {AddOne(NetworkAddress(cidr))}

\* the values generate_test_ip(cidr) can return
GenerateTestIp(cidr) ==
    IF ~Parseable(cidr) THEN {None}
    ELSE
        LET all_hosts == Hosts(cidr)
        IN  IF Len(all_hosts) > 10
            THEN LET middle == Len(all_hosts) \div 2
                     m == Min(OffsetCap, middle \div 2)
                 IN  {ListItem(all_hosts, middle + offset) : offset \in (-m)..m}
            ELSE IF all_hosts # <<>> THEN Range(all_hosts)
            ELSE {AddOne(NetworkAddress(cidr))}

\* the arguments the model calls it with: first, second, last and last but
\* one address and one in between, one address too large; every prefix
\* length and one too long
SampleAddresses == {0, 1, 2 ^ (AddressBits - 1) + 5, MaxAddress - 1, MaxAddress,
                    MaxAddress + 1}

SampleCidrs ==
    {Cidr(a, p) : a \in SampleAddresses, p \in 0..(AddressBits + 1)}

SampleIdle ==
    /\ g_pc = "idle"
    /\ g_cidr = Cidr(0, 0)
    /\ test_ip = None

InitSample ==
    /\ g_pc = "call"
    /\ g_cidr \in SampleCidrs
    /\ test_ip = None

GenerateTestIpCall ==
    /\ g_pc = "call"
    /\ test_ip' \in GenerateTestIp(g_cidr)
    /\ g_pc' = "returned"
    /\ UNCHANGED g_cidr
    /\ UNCHANGED notSample

NextSample ==
    \/ GenerateTestIpCall

----------------------------------------------------------------------------
(* get_random_asns_from_bgpview: classification *)

SkipKeywords ==
    {"AMAZON", "GOOGLE", "MICROSOFT", "CLOUD", "HOSTING", "DIGITALOCEAN",
     "LINODE", "VULTR", "SERVER", "DATACENTER", "VPS", "DEDICATED",
     "COLOCATION", "CDN", "CONTENT DELIVERY"}

ResidentialKeywords ==
    {"TELECOM", "BROADBAND", "CABLE", "DSL", "FIBER", "INTERNET",
     "COMMUNICATIONS", "TELEKOM", "MOBILE", "WIRELESS", "ISP", "NETWORK",
     "RESIDENTIAL"}

UsResidential ==
    {"COMCAST", "VERIZON", "AT&T", "SPECTRUM", "COX", "CENTURYLINK", "CHARTER",
     "FRONTIER", "WINDSTREAM", "OPTIMUM", "XFINITY", "RCN", "ATLANTIC"}

\* A raw record of the directory: its ASN, its country code and full_text,
\* the upper-cased name and description, kept as the set of its words.
Entry(a, c, t) == [asn |-> a, country |-> c, text |-> t]

\* any(keyword in full_text for keyword in keywords)
HasAny(text, keywords) == text \cap keywords # {}

\* an element of residential_asns (name and description are carried along
\* in the code and not read again)
Classified(e, p) == [asn |-> e.asn, priority |-> p]

\* (mutation of ClassifyEntry: the allow-list and the residential keywords
\* are tested before the exclusion vocabulary)
ClassifyEntry_SkipLast(cc, e) ==
    IF e.country # cc /\ cc # "US" THEN <<>>
    ELSE IF cc = "US" /\ HasAny(e.text, UsResidential) THEN <<Classified(e, 1)>>
    ELSE IF HasAny(e.text, ResidentialKeywords) THEN <<Classified(e, 2)>>
    ELSE IF HasAny(e.text, SkipKeywords) THEN <<>>
    ELSE <<Classified(e, 3)>>

\* the body of "for asn_entry in asns_list": what one record appends
ClassifyEntry(cc, e) ==
    IF e.country # cc /\ cc # "US" THEN <<>>
    ELSE IF HasAny(e.text, SkipKeywords) THEN <<>>
    ELSE IF cc = "US" /\ HasAny(e.text, UsResidential) THEN <<Classified(e, 1)>>
    ELSE IF HasAny(e.text, ResidentialKeywords) THEN <<Classified(e, 2)>>
    ELSE <<Classified(e, 3)>>

RECURSIVE ClassifyAll(_, _)
ClassifyAll(cc, asns_list) ==
    IF asns_list = <<>> THEN <<>>
    ELSE ClassifyAll(cc, SubSeq(asns_list, 1, Len(asns_list) - 1))
             \o ClassifyEntry(cc, asns_list[Len(asns_list)])

FallbackCount == 10

\* "for asn_entry in asns_list[:10]": the first records, priority 4
Fallback(asns_list) ==
    [i \in 1..Min(FallbackCount, Len(asns_list)) |-> Classified(asns_list[i], 4)]

\* residential_asns.sort(key=lambda x: x['priority']): stable, ascending
RECURSIVE InsertByPriority(_, _)
InsertByPriority(sorted, a) ==
    IF sorted = <<>> THEN <<a>>
    ELSE IF sorted[Len(sorted)].priority <= a.priority THEN Append(sorted, a)
    ELSE Append(InsertByPriority(SubSeq(sorted, 1, Len(sorted) - 1), a),
                sorted[Len(sorted)])

RECURSIVE SortByPriority(_)
SortByPriority(list) ==
    IF list = <<>> THEN <<>>
    ELSE InsertByPriority(SortByPriority(SubSeq(list, 1, Len(list) - 1)),
                          list[Len(list)])

----------------------------------------------------------------------------
(* get_random_asns_from_bgpview: selection *)

\* random.sample(list, m): m elements at distinct positions, in any order
RandomSample(list, m) ==
    {[i \in 1..m |-> list[q[i]]] :
        q \in {f \in [1..m -> 1..Len(list)] :
                  \A i, j \in 1..m : i # j => f[i] # f[j]}}

\* [a for a in list if a not in chosen]
RECURSIVE Without(_, _)
Without(list, chosen) ==
    IF list = <<>> THEN <<>>
    ELSE (IF Head(list) \in Range(chosen) THEN <<>> ELSE <<Head(list)>>)
             \o Without(Tail(list), chosen)

IsHighPriority(a) == a.priority <= 2

\* "Fill the rest randomly" and "If still not enough, just take what we have"
FillRest(res, selected, num_to_select) ==
    LET remaining == Without(res, selected)
        filled == IF remaining # <<>> /\ num_to_select > 0
                  THEN {selected \o rest :
                           rest \in RandomSample(remaining,
                                                 Min(num_to_select, Len(remaining)))}
                  ELSE {selected}
    IN  {IF sel = <<>> /\ res # <<>> THEN Take(res, 3) ELSE sel : sel \in filled}

\* lines 300-315 for one value of num_to_select: the lists selected_asns
\* can end up as
SelectedWith(res, num_to_select) ==
    LET high_priority == SelectSeq(res, IsHighPriority)
    IN  IF high_priority # <<>>
        THEN UNION {FillRest(res, <<h>>, num_to_select - 1) :
                       h \in Range(high_priority)}
        ELSE FillRest(res, <<>>, num_to_select)

\* The outcome of lines 297-325: random.randint(2, min(3, len)) raises
\* ValueError on an empty range; otherwise the ASN numbers of a selection.
Outcome(r, numbers) == [raised |-> r, numbers |-> numbers]

SelectOutcomes(res) ==
    IF Min(3, Len(res)) < 2 THEN {Outcome(TRUE, <<>>)}
    ELSE {Outcome(FALSE, [i \in 1..Len(sel) |-> sel[i].asn]) :
             sel \in UNION {SelectedWith(res, num) : num \in 2..Min(3, Len(res))}}

\* get_asns_by_country_name: the known residential ASNs of a country
KnownResidential(cc) ==
    IF cc = "US" THEN <<11025, 10796, 11427, 10507, 11426, 7922, 701, 7018>>
    ELSE IF cc = "GB" THEN <<2856, 5089, 5607, 13285>>
    ELSE IF cc = "DE" THEN <<3320, 6830, 31334>>
    ELSE IF cc = "CA" THEN <<577, 6327, 5769>>
    ELSE IF cc = "AU" THEN <<1221, 7545, 4764>>
    ELSE <<>>

GetAsnsByCountryName(cc) ==
    IF KnownResidential(cc) # <<>>
    THEN RandomSample(KnownResidential(cc), Min(3, Len(KnownResidential(cc))))
    ELSE {<<>>}

----------------------------------------------------------------------------
(* get_random_asns_from_bgpview: the steps *)

\* What the directory request can do: raise (transport error, or a body
\* that is not JSON), answer with another status than 200, or answer 200
\* with a list of records.
RequestFailed == [kind |-> "exception", asns_list |-> <<>>]
BadStatus == [kind |-> "status", asns_list |-> <<>>]
Answer(list) == [kind |-> "ok", asns_list |-> list]

\* the texts and countries of the records the model draws from
SampleTexts ==
    {{"ACME"}, {"COMCAST", "CABLE", "HOSTING"}, {"COMCAST"}, {"COMCAST", "CABLE"},
     {"DEUTSCHE", "TELEKOM"}}

EntryKinds == {"US", "DE"} \X SampleTexts

\* the records of a list are numbered by their ASN
Numbered(kinds) ==
    [i \in 1..Len(kinds) |-> Entry(i, kinds[i][1], kinds[i][2])]

\* every list of up to MaxRecords records, and lists of 5 and of 11 records
\* of one kind
AsnsLists ==
    {Numbered(kinds) : kinds \in SeqsUpTo(EntryKinds, MaxRecords)}
        \cup {Numbered([i \in 1..n |-> kind]) : n \in {5, 11}, kind \in EntryKinds}

Responses == {RequestFailed, BadStatus} \cup {Answer(list) : list \in AsnsLists}

CountryCodes == {"US", "DE", "ZZ"}

ClassifyIdle ==
    /\ r_pc = "idle"
    /\ country_code = "US"
    /\ response = RequestFailed
    /\ residential_asns = <<>>
    /\ raised = FALSE
    /\ selected_asn_numbers = <<>>

InitClassify ==
    /\ r_pc = "request"
    /\ country_code \in CountryCodes
    /\ response \in Responses
    /\ residential_asns = <<>>
    /\ raised = FALSE
    /\ selected_asn_numbers = <<>>

\* requests.get and the reading of the answer: an exception or another
\* status returns []; an empty list hands over to get_asns_by_country_name
Request ==
    /\ r_pc = "request"
    /\ IF response.kind = "exception"
       THEN /\ raised' = TRUE
            /\ selected_asn_numbers' = <<>>
            /\ r_pc' = "returned"
       ELSE IF response.kind = "status"
       THEN /\ selected_asn_numbers' = <<>>
            /\ r_pc' = "returned"
            /\ UNCHANGED raised
       ELSE IF response.asns_list = <<>>
       THEN /\ selected_asn_numbers' \in GetAsnsByCountryName(country_code)
            /\ r_pc' = "returned"
            /\ UNCHANGED raised
       ELSE /\ r_pc' = "classify"
            /\ UNCHANGED <<raised, selected_asn_numbers>>
    /\ UNCHANGED <<country_code, response, residential_asns>>
    /\ UNCHANGED notClassify

\* the filter loop, the fallback and the sort
Classify ==
    /\ r_pc = "classify"
    /\ LET found == ClassifyAll(country_code, response.asns_list)
       IN  residential_asns' =
               SortByPriority(IF found = <<>> THEN Fallback(response.asns_list)
                              ELSE found)
    /\ r_pc' = "select"
    /\ UNCHANGED <<country_code, response, raised, selected_asn_numbers>>
    /\ UNCHANGED notClassify

\* the random selection and the return; an exception returns []
Select ==
    /\ r_pc = "select"
    /\ \E out \in SelectOutcomes(residential_asns) :
         /\ raised' = out.raised
         /\ selected_asn_numbers' = out.numbers
    /\ r_pc' = "returned"
    /\ UNCHANGED <<country_code, response, residential_asns>>
    /\ UNCHANGED notClassify

NextClassify ==
    \/ Request
    \/ Classify
    \/ Select

----------------------------------------------------------------------------
(* main(): country list *)

\* Tokens between commas, already upper-cased and stripped.
Tokens == {"US", "GB", "U1"}

\* len(country) == 2 and country.isalpha()
ValidCode(tok) == tok \in {"US", "GB", "DE"}

\* the loop that keeps the 2-letter alphabetic tokens, in input order
FilterCodes(toks) == SelectSeq(toks, ValidCode)

\* get_countries_from_user(): the lists it can return.  env is COUNTRIES
\* split at ',' (<<>>: unset), interactive is "stdin is a tty and not CI",
\* dflt is DEFAULT_COUNTRY (default 'US'), entry is what the user types
\* (<<>>: end of input); an entry without a valid code is asked again.
GetCountriesFromUser(env, interactive, dflt, entry) ==
    IF FilterCodes(env) # <<>> THEN FilterCodes(env)
    ELSE IF ~interactive THEN <<dflt>>
    ELSE IF entry = <<>> THEN <<"US">>
    ELSE FilterCodes(entry)

EnvCountryLists == {<<>>, <<"GB">>, <<"U1">>}
DefaultCountries == {"US", "DE"}
UserCountryEntries == {<<>>, <<"DE", "U1">>}

\* get_total_cidrs_from_user().  env is TOTAL_CIDRS: kind "unset", "junk"
\* (int() raises ValueError) or "int"; entry is what the user types: kind
\* "eof" or "int"; confirm answers the question asked above 200.
DefaultTotal == 20
ConfirmAbove == 200

EntryAccepted(entry, confirm) ==
    \/ entry.kind = "eof"
    \/ /\ entry.kind = "int"
       /\ entry.val > 0
       /\ (entry.val > ConfirmAbove => confirm)

GetTotalCidrsFromUser(env, interactive, entry) ==
    IF env.kind = "int" /\ env.val > 0 THEN env.val
    ELSE IF ~interactive THEN DefaultTotal
    ELSE IF entry.kind = "eof" THEN DefaultTotal
    ELSE entry.val

EnvTotals == {[kind |-> "unset", val |-> 0], [kind |-> "junk", val |-> 0],
              [kind |-> "int", val |-> 0], [kind |-> "int", val |-> 2]}
UserTotalEntries == {[kind |-> "eof", val |-> 0], [kind |-> "int", val |-> 0],
                     [kind |-> "int", val |-> 3], [kind |-> "int", val |-> 201]}

----------------------------------------------------------------------------
(* main(): quota distribution *)

\* (mutation of CidrsPerCountry: the floor of one per country is dropped)
CidrsPerCountry_NoFloor(total, n) == total \div n

\* cidrs_per_country = max(1, total_cidrs // len(countries))
CidrsPerCountry(total, n) == Max(1, total \div n)

\* remaining_cidrs = total_cidrs % len(countries)
RemainingCidrs(total, n) == total % n

\* (mutation of CountryTarget: the remainder reaches one country too many)
CountryTarget_OffByOne(i) ==
    cidrs_per_country + (IF i <= remaining_cidrs THEN 1 ELSE 0)

\* country_target = cidrs_per_country + (1 if i < remaining_cidrs else 0)
CountryTarget(i) == cidrs_per_country + (IF i < remaining_cidrs THEN 1 ELSE 0)

\* What process_country can hand back to main() for one country: a list of
\* at most target results; the k-th result of call i is the pair <<i, k>>.
ProcessCountryResults(i, target) ==
    {[k \in 1..n |-> <<i, k>>] : n \in 0..Min(target, MaxFound)}

----------------------------------------------------------------------------
(* main(): the steps *)

\* nothing written yet
NoReport == [total_cidrs_found |-> 0, results_by_country |-> <<>>]

InitMain ==
    /\ m_pc = "countries"
    /\ argCountries \in SeqsUpTo(Tokens, MaxCountries)
    /\ argTotal \in -1..MaxTotal
    /\ countries = <<>>
    /\ total_cidrs = 0
    /\ cidrs_per_country = 0
    /\ remaining_cidrs = 0
    /\ m_i = 0
    /\ targets = <<>>
    /\ country_results = <<>>
    /\ all_clean_cidrs = <<>>
    /\ dir_called = {}
    /\ probed = {}
    /\ output = <<>>
    /\ report = NoReport
    /\ ScoreIdle
    /\ CollectIdle
    /\ SampleIdle
    /\ ClassifyIdle

\* if args.countries: keep the valid codes; none left: return
CountriesFromArgs ==
    /\ m_pc = "countries"
    /\ argCountries # <<>>
    /\ countries' = FilterCodes(argCountries)
    /\ m_pc' = IF countries' = <<>> THEN "rejected" ELSE "total"
    /\ UNCHANGED <<argCountries, argTotal, total_cidrs, cidrs_per_country,
                   remaining_cidrs, m_i, targets, country_results,
                   all_clean_cidrs, dir_called, probed>>
    /\ UNCHANGED <<output, report>>
    /\ UNCHANGED notMain

\* else: countries = get_countries_from_user()
CountriesFromUser ==
    /\ m_pc = "countries"
    /\ argCountries = <<>>
    /\ \E env \in EnvCountryLists, interactive \in BOOLEAN,
          dflt \in DefaultCountries, entry \in UserCountryEntries :
         /\ (entry # <<>> => FilterCodes(entry) # <<>>)
         /\ countries' = GetCountriesFromUser(env, interactive, dflt, entry)
    /\ m_pc' = "total"
    /\ UNCHANGED <<argCountries, argTotal, total_cidrs, cidrs_per_country,
                   remaining_cidrs, m_i, targets, country_results,
                   all_clean_cidrs, dir_called, probed>>
    /\ UNCHANGED <<output, report>>
    /\ UNCHANGED notMain

\* if args.total_cidrs: total_cidrs = args.total_cidrs
TotalFromArgs ==
    /\ m_pc = "total"
    /\ argTotal # 0
    /\ total_cidrs' = argTotal
    /\ m_pc' = "distribute"
    /\ UNCHANGED <<argCountries, argTotal, countries, cidrs_per_country,
                   remaining_cidrs, m_i, targets, country_results,
                   all_clean_cidrs, dir_called, probed>>
    /\ UNCHANGED <<output, report>>
    /\ UNCHANGED notMain

\* else: total_cidrs = get_total_cidrs_from_user()
TotalFromUser ==
    /\ m_pc = "total"
    /\ argTotal = 0
    /\ \E env \in EnvTotals, interactive \in BOOLEAN,
          entry \in UserTotalEntries, confirm \in BOOLEAN :
         /\ EntryAccepted(entry, confirm)
         /\ total_cidrs' = GetTotalCidrsFromUser(env, interactive, entry)
    /\ m_pc' = "distribute"
    /\ UNCHANGED <<argCountries, argTotal, countries, cidrs_per_country,
                   remaining_cidrs, m_i, targets, country_results,
                   all_clean_cidrs, dir_called, probed>>
    /\ UNCHANGED <<output, report>>
    /\ UNCHANGED notMain

\* Calculate CIDRs per country (distribute evenly)
Distribute ==
    /\ m_pc = "distribute"
    /\ cidrs_per_country' = CidrsPerCountry(total_cidrs, Len(countries))
    /\ remaining_cidrs' = RemainingCidrs(total_cidrs, Len(countries))
    /\ m_pc' = "loop"
    /\ UNCHANGED <<argCountries, argTotal, countries, total_cidrs, m_i,
                   targets, country_results, all_clean_cidrs, dir_called,
                   probed>>
    /\ UNCHANGED <<output, report>>
    /\ UNCHANGED notMain

\* dict assignment country_results[country] = clean_cidrs
SetResult(d, country, res) ==
    [c \in DOMAIN d \cup {country} |-> IF c = country THEN res ELSE d[c]]

\* One iteration of "for i, country in enumerate(countries)".  process_country
\* always queries the ASN directory at least once (its loop condition holds
\* on entry) and probes the backends exactly when it returns results.
ProcessCountry ==
    /\ m_pc = "loop"
    /\ m_i < Len(countries)
    /\ LET country == countries[m_i + 1]
           target == CountryTarget(m_i)
       IN  /\ targets' = Append(targets, target)
           /\ dir_called' = dir_called \cup {m_i}
           /\ \E found \in ProcessCountryResults(m_i, target) :
                IF found # <<>>
                THEN /\ all_clean_cidrs' = all_clean_cidrs \o found
                     /\ country_results' =
                            SetResult(country_results, country, found)
                     /\ probed' = probed \cup {m_i}
                ELSE UNCHANGED <<all_clean_cidrs, country_results, probed>>
    /\ m_i' = m_i + 1
    /\ UNCHANGED <<m_pc, argCountries, argTotal, countries, total_cidrs,
                   cidrs_per_country, remaining_cidrs>>
    /\ UNCHANGED <<output, report>>
    /\ UNCHANGED notMain

\* countries.index(country): the 0-based position of its first occurrence
Index(list, x) ==
    (CHOOSE i \in 1..Len(list) :
        list[i] = x /\ \A j \in 1..(i - 1) : list[j] # x) - 1

\* the CIDR file: for country in countries: if country in country_results:
\* one line per result of country_results[country]
RECURSIVE OutputLines(_, _)
OutputLines(list, results) ==
    IF list = <<>> THEN <<>>
    ELSE (IF Head(list) \in DOMAIN results THEN results[Head(list)] ELSE <<>>)
             \o OutputLines(Tail(list), results)

\* report['results_by_country'][country], for a country with results and
\* for one without
CountryReport(country) ==
    [target_cidrs |-> CountryTarget(Index(countries, country)),
     clean_cidrs_found |-> IF country \in DOMAIN country_results
                           THEN Len(country_results[country]) ELSE 0,
     saved_cidrs |-> IF country \in DOMAIN country_results
                     THEN country_results[country] ELSE <<>>]

\* the report dict (the fields that depend on the results)
BuildReport ==
    [total_cidrs_found |-> Len(all_clean_cidrs),
     results_by_country |-> [c \in Range(countries) |-> CountryReport(c)]]

\* after the loop: nothing found: return; else write the CIDR file and the
\* report
Finish ==
    /\ m_pc = "loop"
    /\ m_i = Len(countries)
    /\ IF all_clean_cidrs = <<>>
       THEN /\ m_pc' = "no_results"
            /\ UNCHANGED <<output, report>>
       ELSE /\ m_pc' = "reported"
            /\ output' = OutputLines(countries, country_results)
            /\ report' = BuildReport
    /\ UNCHANGED <<argCountries, argTotal, countries, total_cidrs,
                   cidrs_per_country, remaining_cidrs, m_i, targets,
                   country_results, all_clean_cidrs, dir_called, probed>>
    /\ UNCHANGED notMain

NextMain ==
    \/ CountriesFromArgs
    \/ CountriesFromUser
    \/ TotalFromArgs
    \/ TotalFromUser
    \/ Distribute
    \/ ProcessCountry
    \/ Finish

SpecMain == InitMain /\ [][NextMain]_vars

\* main() not running
MainIdle ==
    /\ m_pc = "idle"
    /\ argCountries = <<>>
    /\ argTotal = 0
    /\ countries = <<>>
    /\ total_cidrs = 0
    /\ cidrs_per_country = 0
    /\ remaining_cidrs = 0
    /\ m_i = 0
    /\ targets = <<>>
    /\ country_results = <<>>
    /\ all_clean_cidrs = <<>>
    /\ dir_called = {}
    /\ probed = {}
    /\ output = <<>>
    /\ report = NoReport

InitScoreSpec ==
    /\ InitScore
    /\ MainIdle
    /\ CollectIdle
    /\ SampleIdle
    /\ ClassifyIdle

SpecScore == InitScoreSpec /\ [][NextScore]_vars

InitCollectSpec ==
    /\ InitCollect
    /\ MainIdle
    /\ ScoreIdle
    /\ SampleIdle
    /\ ClassifyIdle

SpecCollect == InitCollectSpec /\ [][NextCollect]_vars

InitSelectSpec ==
    /\ InitSelect
    /\ MainIdle
    /\ ScoreIdle
    /\ SampleIdle
    /\ ClassifyIdle

SpecSelect == InitSelectSpec /\ [][NextSelect]_vars

InitSampleSpec ==
    /\ InitSample
    /\ MainIdle
    /\ ScoreIdle
    /\ CollectIdle
    /\ ClassifyIdle

SpecSample == InitSampleSpec /\ [][NextSample]_vars

InitClassifySpec ==
    /\ InitClassify
    /\ MainIdle
    /\ ScoreIdle
    /\ CollectIdle
    /\ SampleIdle

SpecClassify == InitClassifySpec /\ [][NextClassify]_vars

----------------------------------------------------------------------------
(* Properties of main() *)

\* the country loop has handed every country its target
AllTargetsAssigned ==
    /\ m_pc \in {"loop", "no_results", "reported"}
    /\ m_i = Len(countries)

C2_FirstRemainderGetOneMore ==
    (m_pc \in {"loop", "no_results", "reported"} /\ total_cidrs >= 1) =>
        LET C == Len(countries)
            base == IF total_cidrs \div C >= 1 THEN total_cidrs \div C ELSE 1
            rem == total_cidrs - C * (total_cidrs \div C)
        IN  /\ \A k \in 1..Len(targets) :
                  targets[k] = IF k <= rem THEN base + 1 ELSE base
            /\ Cardinality({k \in 1..Len(targets) : targets[k] = base + 1})
                   = Min(rem, Len(targets))
            /\ \A k \in 1..Len(targets) : targets[k] >= 1
            /\ \A j, k \in 1..Len(targets) :
                  targets[j] - targets[k] \in {-1, 0, 1}
            /\ (AllTargetsAssigned /\ total_cidrs = 10 /\ C = 3) =>
                  targets = <<4, 3, 3>>

C2_Witness ==
    /\ AllTargetsAssigned
    /\ total_cidrs = 10
    /\ Len(countries) = 3
    /\ targets = <<4, 3, 3>>

\* C3: a run whose country list is empty or whose requested total is zero or
\* negative issues no directory call and no backend probe.
C3_NoNetworkOnBadConfig ==
    (\/ (m_pc # "countries" /\ countries = <<>>)
     \/ (m_pc \in {"distribute", "loop", "no_results", "reported"}
         /\ total_cidrs <= 0))
    => (dir_called = {} /\ probed = {})

----------------------------------------------------------------------------
(* Properties of get_spam_score *)

Backends == {"spamhaus", "sorbs", "barracuda", "sfs"}
Secondary == {"sorbs", "barracuda", "sfs"}

\* the (clean, score) pair each backend returned
Returned ==
    [b \in Backends |-> CASE b = "spamhaus" -> spamhaus
                          [] b = "sorbs" -> sorbs
                          [] b = "barracuda" -> barracuda
                          [] b = "sfs" -> sfs]

\* the backends whose verdict is Clean or Listed
Determinate == {b \in Backends : Returned[b].clean \in {"True", "False"}}

RECURSIVE ConfidenceSum(_)
ConfidenceSum(S) ==
    IF S = {} THEN 0
    ELSE LET b == CHOOSE x \in S : TRUE
         IN  Returned[b].score + ConfidenceSum(S \ {b})

ConfidenceMax(S) ==
    CHOOSE m \in {Returned[b].score : b \in S} :
        \A b \in S : Returned[b].score <= m

\* the backend did not answer: an exception other than "no record", or for
\* StopForumSpam an exception or a status other than 200
SpamhausFailed == sp_out.kind = "error"
SorbsFailed == so_out # <<>> /\ \A k \in 1..3 : so_out[k].kind = "error"
BarracudaFailed == ba_out.kind = "error"
SfsFailed ==
    \/ sfs_out.kind = "exception"
    \/ (sfs_out.kind = "response" /\ sfs_out.status # 200)

\* C4: whenever Spamhaus is Listed the returned pair is (Spamhaus's
\* confidence, blacklisted), whatever SORBS, Barracuda and StopForumSpam say.
C4_PrimaryListedDecides ==
    (s_pc = "done" /\ spamhaus.clean = "False") =>
        (score = Scale * spamhaus.score /\ is_blacklisted)

C4_Witness ==
    /\ variant = "check"
    /\ s_pc = "done"
    /\ spamhaus = Pair("False", 85)
    /\ sorbs.clean = "True"
    /\ barracuda.clean = "None"
    /\ sfs = Pair("False", 5)
    /\ score = Scale * 85
    /\ is_blacklisted

C6_AllFailedIsNeutral ==
    (/\ s_pc = "done"
     /\ SpamhausFailed
     /\ SfsFailed
     /\ variant = "check" => (SorbsFailed /\ BarracudaFailed))
    => (score = Scale * 50 /\ ~is_blacklisted)

\* C7: in check.py, when Spamhaus is not Listed and some result is Clean or
\* Listed, blacklisted holds exactly when the value is above 15; a value of
\* exactly 15 is not blacklisted.
C7_BlacklistedIffAbove15 ==
    (/\ variant = "check"
     /\ s_pc = "done"
     /\ spamhaus.clean # "False"
     /\ Determinate # {})
    => (is_blacklisted <=> score > Scale * 15)

C7_Witness ==
    /\ variant = "check"
    /\ s_pc = "done"
    /\ spamhaus.clean # "False"
    /\ Determinate # {}
    /\ score = Scale * 15
    /\ ~is_blacklisted

\* C8: every backend check maps a transport or protocol failure to Unknown
\* (clean flag None), never to Clean or Listed.
C8_FailureIsUnknown ==
    /\ SpamhausFailed => spamhaus.clean = "None"
    /\ SorbsFailed => sorbs.clean = "None"
    /\ BarracudaFailed => barracuda.clean = "None"
    /\ SfsFailed => sfs.clean = "None"

\* C9: once Spamhaus has returned Listed, no secondary backend is queried
\* for that address.
C9_NoQueryAfterPrimaryListed ==
    \A j, k \in 1..Len(queried) :
        (j < k /\ queried[j] = "spamhaus" /\ spamhaus.clean = "False")
            => queried[k] \notin Secondary

----------------------------------------------------------------------------
(* Properties of the collection loop *)

NoDuplicates(q) == \A j, k \in 1..Len(q) : j # k => q[j] # q[k]

\* where x first occurs in q
FirstIndex(q, x) == CHOOSE i \in 1..Len(q) : q[i] = x /\ \A j \in 1..(i - 1) : q[j] # x

\* an attempt that fetched CIDRs is about to be merged into the pool
MergePending == c_pc = "fetch" /\ a_k > Len(asns) /\ attempt_cidrs # <<>>

\* C10: after every attempt that added blocks the pool holds each CIDR at
\* most once, in the order each was first seen across all attempts (the pool
\* before the attempt stays in front, the new CIDRs follow in the order the
\* attempt first named them); a CIDR already in the pool changes nothing.
C10_DedupFirstSeen ==
    [][MergePending =>
          /\ NoDuplicates(all_cidrs')
          /\ Range(all_cidrs') = Range(all_cidrs) \cup Range(attempt_cidrs)
          /\ Len(all_cidrs') >= Len(all_cidrs)
          /\ SubSeq(all_cidrs', 1, Len(all_cidrs)) = all_cidrs
          /\ \A j, k \in (Len(all_cidrs) + 1)..Len(all_cidrs') :
                j < k => FirstIndex(attempt_cidrs, all_cidrs'[j])
                           < FirstIndex(attempt_cidrs, all_cidrs'[k])
          /\ Range(attempt_cidrs) \subseteq Range(all_cidrs)
                => all_cidrs' = all_cidrs
      ]_vars

C10_Witness ==
    /\ c_pc = "loop"
    /\ retry_count >= 2
    /\ fed_known
    /\ Len(all_cidrs) >= 2
    /\ NoDuplicates(all_cidrs)

\* the collection loop is still running
InLoop == c_pc \in {"loop", "fetch"}

\* a step that starts an attempt
AttemptStarts == retry_count' = retry_count + 1

\* what is left of the loop: the attempts not yet started, and within an
\* attempt the operators not yet fetched plus the merge
LoopVariant ==
    (8 - retry_count) * 6
        + (IF c_pc = "fetch" THEN Len(asns) + 2 - a_k ELSE 0)

\* C11: the collection loop makes at most 8 attempts and terminates (every
\* step of the loop lowers a natural-number variant); an attempt starts only
\* while the pool holds fewer than max(2T, 10) CIDRs and fewer than 8
\* attempts were made; once the pool holds max(2T, 10) CIDRs the loop has
\* stopped.
C11_AtMostEightAttempts ==
    /\ [](retry_count <= 8)
    /\ [](Len(all_cidrs) >= Max(2 * target_cidrs, 10) => ~InLoop)
    /\ [][/\ AttemptStarts =>
               /\ Len(all_cidrs) < Max(2 * target_cidrs, 10)
               /\ retry_count < 8
          /\ ~InLoop => ~AttemptStarts
          /\ InLoop => LoopVariant \in Nat /\ LoopVariant' \in Nat
          /\ InLoop /\ InLoop' => LoopVariant' < LoopVariant
         ]_vars

\* the ceiling was reached with a pool that is still too small
C11_Witness ==
    /\ ~InLoop
    /\ retry_count = 8
    /\ all_cidrs # <<>>
    /\ Len(all_cidrs) < Max(2 * target_cidrs, 10)

\* C12: when an attempt has added no CIDR to the pool, the next attempt
\* begins only after the backoff sleep.
C12_BackoffAfterBarrenAttempt ==
    [][(AttemptStarts /\ retry_count >= 1 /\ ~grew) => backoff]_vars

\* C13: when process_country has returned and its pool is empty, all 8
\* attempts were made, the returned list is empty, and the testing phase
\* was never entered: no backend answer was awaited and get_spam_score was
\* never called.
C13_EmptyPoolReturnsEmpty ==
    (c_pc = "returned" /\ all_cidrs = <<>>) =>
        /\ retry_count = 8
        /\ clean_cidrs = <<>>
        /\ checker_calls = 0
        /\ tested_results = <<>>
        /\ t_k = 0
        /\ probe = <<>>

C13_Witness ==
    /\ c_pc = "returned"
    /\ all_cidrs = <<>>
    /\ retry_count = 8
    /\ backoff

\* C13, in main(): a country whose process_country returned nothing leaves
\* the collected results as they were, and the country loop goes on: as
\* long as countries are left, the next one can be processed.
C13_MainContinues ==
    /\ [][(m_pc = "loop" /\ m_i' = m_i + 1 /\ probed' = probed) =>
            /\ m_pc' = "loop"
            /\ all_clean_cidrs' = all_clean_cidrs
            /\ country_results' = country_results
         ]_vars
    /\ []((m_pc = "loop" /\ m_i < Len(countries)) => ENABLED ProcessCountry)

----------------------------------------------------------------------------
(* Properties of the selection *)

\* the scored candidates and the clean ones among them
Scored == Range(tested_results)
CleanScored == {r \in Scored : r.clean}
NonCleanScored == {r \in Scored : ~r.clean}
ReturnedSet == Range(clean_cidrs)

\* every member of part that is returned scores no more than every member
\* that is left out
LowestScored(part) ==
    \A r \in part \cap ReturnedSet, q \in part \ ReturnedSet : r.score <= q.score

\* C14: the returned list is in non-decreasing order of score, backfilled
\* entries included, and is no longer than the target.
C14_SortedAndBounded ==
    c_pc = "returned" =>
        /\ Len(clean_cidrs) <= target_cidrs
        /\ \A j, k \in 1..Len(clean_cidrs) :
              j < k => clean_cidrs[j].score <= clean_cidrs[k].score

\* a full list whose tail is backfill, from a pool tested in another order
C14_Witness ==
    /\ c_pc = "returned"
    /\ Len(clean_cidrs) = target_cidrs
    /\ Len(clean_cidrs) >= 3
    /\ clean_cidrs[1].clean
    /\ clean_cidrs[1].score < clean_cidrs[2].score
    /\ ~clean_cidrs[Len(clean_cidrs)].clean
    /\ clean_cidrs[1].cidr > clean_cidrs[2].cidr

\* C15: with S scored candidates of which K are clean and target T, the
\* result has min(T, S) entries, each candidate at most once; min(T, K) of
\* them are clean and these are the lowest-scored clean ones; non-clean ones
\* are returned only when K < T, and then they are the min(T - K, S - K)
\* lowest-scored non-clean ones.
C15_Backfill ==
    c_pc = "returned" =>
        LET S == Len(tested_results)
            K == Cardinality(CleanScored)
            T == target_cidrs
        IN  /\ Len(clean_cidrs) = Min(T, S)
            /\ Cardinality(ReturnedSet) = Len(clean_cidrs)
            /\ ReturnedSet \subseteq Scored
            /\ Cardinality(ReturnedSet \cap CleanScored) = Min(T, K)
            /\ LowestScored(CleanScored)
            /\ K >= T => ReturnedSet \cap NonCleanScored = {}
            /\ K < T => Cardinality(ReturnedSet \cap NonCleanScored)
                            = Min(T - K, S - K)
            /\ LowestScored(NonCleanScored)

\* fewer clean candidates than the target, and more non-clean ones than fit
C15_Witness ==
    /\ c_pc = "returned"
    /\ CleanScored # {}
    /\ Cardinality(CleanScored) < target_cidrs
    /\ target_cidrs < Len(tested_results)
    /\ \E r \in NonCleanScored \cap ReturnedSet, q \in NonCleanScored \ ReturnedSet :
          r.score < q.score

----------------------------------------------------------------------------
(* Properties of test_cidr_cleanliness *)

\* C16: in the result dict check.py builds, 'clean' is true exactly when
\* the address is not blacklisted and its score is at most 10, a threshold
\* no higher than the blacklist threshold 15; no result is both clean and
\* blacklisted.
C16_CleanIffLowAndNotBlacklisted ==
    (s_pc = "result" /\ variant = "check") =>
        /\ result.clean <=> (~result.blacklisted /\ result.score <= Scale * 10)
        /\ ~(result.clean /\ result.blacklisted)
        /\ SaveThreshold <= BlacklistThreshold
        /\ result.score = score
        /\ result.blacklisted = is_blacklisted

\* a clean result right at the threshold
C16_Witness ==
    /\ s_pc = "result"
    /\ variant = "check"
    /\ result.clean
    /\ result.score = Scale * 10

----------------------------------------------------------------------------
(* Properties of generate_test_ip *)

\* C17: generate_test_ip returns None exactly when its argument does not
\* parse as a network; for every network, the single-address one, the
\* two-address one and arguments with host bits set included, it returns an
\* address.
C17_NoneOnlyWhenUnparseable ==
    g_pc = "returned" =>
        /\ test_ip = None <=> ~Parseable(g_cidr)
        /\ Parseable(g_cidr) => test_ip \in 0..MaxAddress

\* the last address as a single-address network
C17_Witness ==
    /\ g_pc = "returned"
    /\ g_cidr = Cidr(MaxAddress, AddressBits)
    /\ test_ip = MaxAddress

----------------------------------------------------------------------------
(* Properties of get_random_asns_from_bgpview *)

\* the selection ran: the directory answered with records
Selected == r_pc = "returned" /\ residential_asns # <<>>

\* the priority of a returned ASN
PriorityOf(asn) ==
    (CHOOSE a \in Range(residential_asns) : a.asn = asn).priority

\* every record of the answer was eliminated by the filters
AllEliminated == ClassifyAll(country_code, response.asns_list) = <<>>

\* C18: when the directory returned at least one record and the filters
\* eliminated all of them, the eligible operators are the first raw records
\* with priority 4 and the function returns a non-empty selection.
C18_FallbackNeverEmpty ==
    (Selected /\ AllEliminated) =>
        /\ Len(residential_asns) = Min(10, Len(response.asns_list))
        /\ \A i \in 1..Len(residential_asns) :
              /\ residential_asns[i].asn = response.asns_list[i].asn
              /\ residential_asns[i].priority = 4
        /\ selected_asn_numbers # <<>>

\* C19: when an eligible operator has priority 1 or 2, one of the returned
\* operators has priority 1 or 2.
C19_HighPriorityIncluded ==
    (Selected /\ \E a \in Range(residential_asns) : a.priority <= 2) =>
        \E i \in 1..Len(selected_asn_numbers) :
            /\ selected_asn_numbers[i] \in {a.asn : a \in Range(residential_asns)}
            /\ PriorityOf(selected_asn_numbers[i]) <= 2

\* C20: with k >= 1 eligible operators the function returns n of them,
\* min(2, k) <= n <= min(3, k), each at most once.
C20_TwoOrThreeDistinct ==
    Selected =>
        LET k == Len(residential_asns)
            n == Len(selected_asn_numbers)
        IN  /\ Min(2, k) <= n
            /\ n <= Min(3, k)
            /\ \A i, j \in 1..n :
                  i # j => selected_asn_numbers[i] # selected_asn_numbers[j]
            /\ Range(selected_asn_numbers)
                  \subseteq {a.asn : a \in Range(residential_asns)}

\* the classification ran
Tiered == r_pc \in {"select", "returned"} /\ residential_asns # <<>>

\* a raw record that the country filter or the exclusion vocabulary discards
Excluded(e) ==
    \/ e.country # country_code /\ country_code # "US"
    \/ e.text \cap SkipKeywords # {}

\* the tier the rules give a record that is not discarded
ExpectedTier(e) ==
    IF country_code = "US" /\ e.text \cap UsResidential # {} THEN 1
    ELSE IF e.text \cap ResidentialKeywords # {} THEN 2
    ELSE 3

\* C21: unless the fallback fires, the eligible operators are exactly the raw
\* records that are neither of another country (US excepted) nor carry an
\* exclusion token, whatever else they match; each has priority 1 if the
\* country is US and it matches the allow-list, else 2 with a residential
\* keyword, else 3; and no discarded record is among the returned operators.
C21_TiersInOrder ==
    (Tiered /\ ~AllEliminated) =>
        /\ \A e \in Range(response.asns_list) :
              IF Excluded(e)
              THEN /\ \A a \in Range(residential_asns) : a.asn # e.asn
                   /\ e.asn \notin Range(selected_asn_numbers)
              ELSE \E a \in Range(residential_asns) :
                      a.asn = e.asn /\ a.priority = ExpectedTier(e)
        /\ Len(residential_asns) =
              Cardinality({e \in Range(response.asns_list) : ~Excluded(e)})

\* a US run that returned operators and left out a record that matches the
\* allow-list, a residential keyword and the exclusion vocabulary
C21_Witness ==
    /\ r_pc = "returned"
    /\ country_code = "US"
    /\ Len(selected_asn_numbers) = 2
    /\ \E e \in Range(response.asns_list) :
          /\ e.text = {"COMCAST", "CABLE", "HOSTING"}
          /\ e.asn \notin Range(selected_asn_numbers)
    /\ \E a \in Range(residential_asns) : a.priority = 1
    /\ \E a \in Range(residential_asns) : a.priority = 3

----------------------------------------------------------------------------
(* Properties of the operator attached to a CIDR *)

\* C22: the ASN that asn_map attaches to a CIDR of the pool is never
\* changed by a later step, and the 'asn' field of a result is the one
\* asn_map holds.
C22_AsnNeverChanges ==
    [][/\ \A c \in DOMAIN asn_map :
             c \in DOMAIN asn_map' => asn_map'[c] = asn_map[c]
       /\ \A i \in 1..Len(tested_results') :
             tested_results'[i].asn = asn_map'[tested_results'[i].cidr]
      ]_vars

----------------------------------------------------------------------------
(* Properties of check_spamhaus_zen *)

\* the bit is set in the last octet of the Spamhaus answer
CodeHas(bit) == (sp_out.addr[4] \div bit) % 2 = 1

\* C23: for an answer 127.0.0.x check.py reports Listed with the confidence
\* of the most severe category whose bit is set in x: XBL (16) 100, SBL (2)
\* 95, CSS (4) 90, PBL (8) 85, none of them 80.
C23_MostSevereCategory ==
    (/\ variant = "check"
     /\ sp_out.kind = "resolved"
     /\ SubSeq(sp_out.addr, 1, 3) = <<127, 0, 0>>) =>
        /\ spamhaus.clean = "False"
        /\ spamhaus.score = IF CodeHas(16) THEN 100
                            ELSE IF CodeHas(2) THEN 95
                            ELSE IF CodeHas(4) THEN 90
                            ELSE IF CodeHas(8) THEN 85
                            ELSE 80

----------------------------------------------------------------------------
(* The two variants of get_spam_score *)

\* the determinate confidences the script has collected
ScriptScores == ValidScores(<<spamhaus, sfs>>)

\* C24: when Spamhaus is not Listed and one or two backends are determinate,
\* the script's get_spam_score returns the maximum of their confidences,
\* which is what check.py returns from the same two results.
C24_ScriptReturnsMaximum ==
    (/\ variant = "script"
     /\ s_pc \in {"done", "result"}
     /\ spamhaus.clean # "False"
     /\ Len(ScriptScores) \in {1, 2}) =>
        /\ score = Scale * MaxSeq(ScriptScores)
        /\ score = GetSpamScore(spamhaus, Pair("None", 50), Pair("None", 50),
                                sfs).score

----------------------------------------------------------------------------
(* A listing on a DNS blacklist *)

\* one of the DNS blacklists reports the address as Listed
DnsblListed ==
    \/ spamhaus.clean = "False"
    \/ sorbs.clean = "False"
    \/ barracuda.clean = "False"

\* C25: in check.py, once get_spam_score has returned, a probe that Spamhaus,
\* SORBS or Barracuda reports as Listed is blacklisted, whatever the other
\* backends answered, and the result built from it is not clean.
C25_ListedIsNeverClean ==
    (variant = "check" /\ s_pc \in {"done", "result"} /\ DnsblListed) =>
        /\ is_blacklisted
        /\ s_pc = "result" => result.blacklisted /\ ~result.clean

\* Barracuda alone lists the address and the three other backends report it
\* clean: the mean regime with four signals.
C25_Witness ==
    /\ variant = "check"
    /\ s_pc = "result"
    /\ spamhaus.clean = "True"
    /\ sorbs.clean = "True"
    /\ barracuda.clean = "False"
    /\ sfs.clean = "True"
    /\ score = Scale * 20
    /\ result.blacklisted
    /\ ~result.clean

----------------------------------------------------------------------------
(* The sampled address and its block *)

\* the address lies between the block's first and last address
InBlock(a, cidr) ==
    /\ NetworkAddress(cidr) <= a
    /\ a <= NetworkAddress(cidr) + NumAddresses(cidr) - 1

\* the indices middle + offset that generate_test_ip can form for a list of
\* n hosts
Indices(n) ==
    LET middle == n \div 2
        m == Min(OffsetCap, middle \div 2)
    IN  {middle + offset : offset \in (-m)..m}

\* the address and the index are in range
SampledInside ==
    /\ InBlock(test_ip, g_cidr)
    /\ LET n == Len(Hosts(g_cidr))
       IN  n > 10 => \A i \in Indices(n) : 0 <= i /\ i <= n - 1

----------------------------------------------------------------------------
(* Properties of the files main() writes *)

\* the sum of clean_cidrs_found over a set of countries of the report
RECURSIVE FoundSum(_)
FoundSum(S) ==
    IF S = {} THEN 0
    ELSE LET c == CHOOSE x \in S : TRUE
         IN  report.results_by_country[c].clean_cidrs_found
                 + FoundSum(S \ {c})

\* C27: once main() has written its files, total_cidrs_found is the sum of
\* clean_cidrs_found over the countries of results_by_country, the target
\* reported for each country of the list is the target process_country was
\* called with for it, and the lines of the CIDR file are the results the
\* calls returned, country after country.
C27_ReportConsistent ==
    m_pc = "reported" =>
        /\ report.total_cidrs_found
               = FoundSum(DOMAIN report.results_by_country)
        /\ \A i \in 1..Len(countries) :
               report.results_by_country[countries[i]].target_cidrs
                   = targets[i]
        /\ output = all_clean_cidrs

====
